---- MODULE Spec2Model ----
(***************************************************************************)
(* Model of src/app.py: the Kakao skill webhook relay.                     *)
(*                                                                         *)
(*  - rate_limit_check_and_message with both stores (the in-process        *)
(*    _mem_buckets map and the Redis keys ban:/burst:/m:/h:/d:/str:),      *)
(*  - the /webhook handler (rate check, pick_utter, dispatch),             *)
(*  - call_chatling as one attempt with an outcome chosen by the backend,  *)
(*  - bg_worker, the callback thread, with its own clock.                  *)
(*                                                                         *)
(* Wall-clock time of the rate limiter is in whole seconds (the code       *)
(* truncates with int(time.time())); the worker's clock is in units of     *)
(* 0.1 ms so that 0.35 * 1.6^k is exact as long as it is below the cap.    *)
(*                                                                         *)
(* Specifications:                                                         *)
(*   Spec        requests of one user handled one after the other, with    *)
(*               time passing in between, on either store, the store       *)
(*               reachable and the payload well formed;                    *)
(*   SpecFault   Spec plus the requests during which a step raises;        *)
(*   SpecWorker  one bg_worker thread from its start to its end.           *)
(*   SpecPair    the calls of one user made on both stores side by side;   *)
(*   SpecUtter   one payload, drawn from the values the two text fields    *)
(*               can hold, handled by a fresh process;                     *)
(*   SpecConc    overlapping calls of the rate limiter for one user,       *)
(*               statement by statement, on either store.                  *)
(***************************************************************************)
EXTENDS Integers, Sequences, FiniteSets, TLC

(***************************************************************************)
(* Configuration.  RL_PER_MIN, RL_PER_HOUR, RL_PER_DAY and SPAM_BURST_N    *)
(* are read from the environment (os.getenv); the model runs a deployment  *)
(* with small limits (defaults 10 / 200 / 1000 / 10) that keeps their      *)
(* order: SPAM_BURST_N = RL_PER_MIN < RL_PER_HOUR < RL_PER_DAY.  The       *)
(* durations are the defaults of the source.                               *)
(***************************************************************************)
RL_PER_MIN == 2
RL_PER_HOUR == 3
RL_PER_DAY == 4
RL_COOLDOWN_SHORT == 600
RL_BAN_DAYS == 30
RL_STRIKE_WINDOW_DAYS == 7
SPAM_BURST_N == 2
SPAM_BURST_S == 2
MIN_WINDOW_S == 60
HOUR_WINDOW_S == 3600
DAY_S == 86400

\* bounds of the exploration
MaxReqs == 6
MaxTicks == 2
StartTime == 1

NoText == <<"None">>
NoId == "None"
AT_TEXT == <<"@", "t", "e", "x", "t">>
PADDED == <<" ", "h", "i", " ">>

Ids == {"u1"}
UserKeys == {"u1", "anon"}
Stores == {"mem", "redis"}
\* lengths of time by which the clock advances between requests
Jumps == {SPAM_BURST_S + 1, RL_COOLDOWN_SHORT, HOUR_WINDOW_S, DAY_S,
          RL_STRIKE_WINDOW_DAYS * DAY_S, RL_BAN_DAYS * DAY_S}

VARIABLES store, now, mem, rds, last, shadow, req, resolved, reqs, ticks,
          thr,
          wpc, wnow, wdeadline, wsleep, wresult, wtimeout, wcalls, woks,
          callbacks, cbText, cbAt

rlvars == <<store, now, mem, rds, last, shadow, req, resolved, reqs, ticks>>
wvars == <<wpc, wnow, wdeadline, wsleep, wresult, wtimeout, wcalls, woks,
           callbacks, cbText, cbAt>>
vars == <<rlvars, thr, wvars>>

----------------------------------------------------------------------------
(* In-process store: _mem_buckets *)

MemDefault ==
  [ban_exp |-> 0, burst |-> << >>,
   m |-> [count |-> 0, exp |-> 0],
   h |-> [count |-> 0, exp |-> 0],
   d |-> [count |-> 0, exp |-> 0],
   strikes |-> 0, strike_exp |-> 0]

\* mutant: the window is taken as expired already at its last second
IncrMemBucketEarlyReset(bkt, window_s, t) ==
  LET b1 == IF t >= bkt.exp THEN [count |-> 0, exp |-> t + window_s] ELSE bkt
  IN  [b1 EXCEPT !.count = @ + 1]

\* _incr_mem_bucket(bkt, window_s) at time t: the new bucket
_incr_mem_bucket(bkt, window_s, t) ==
  LET b1 == IF t > bkt.exp THEN [count |-> 0, exp |-> t + window_s] ELSE bkt
  IN  [b1 EXCEPT !.count = @ + 1]

\* mutant: the strikes of an expired strike window are not forgotten
MemStrikeNoReset(u, t) ==
  LET u1 == IF u.strike_exp < t
            THEN [u EXCEPT !.strike_exp = t + RL_STRIKE_WINDOW_DAYS * DAY_S]
            ELSE u
      u2 == [u1 EXCEPT !.strikes = @ + 1]
  IN  IF u2.strikes >= 2
      THEN [u2 EXCEPT !.ban_exp = t + RL_BAN_DAYS * DAY_S]
      ELSE [u2 EXCEPT !.ban_exp = t + RL_COOLDOWN_SHORT]

\* the strike accounting of the in-process store (burst and minute branch)
MemStrike(u, t) ==
  LET u1 == IF u.strike_exp < t
            THEN [u EXCEPT !.strikes = 0,
                           !.strike_exp = t + RL_STRIKE_WINDOW_DAYS * DAY_S]
            ELSE u
      u2 == [u1 EXCEPT !.strikes = @ + 1]
  IN  IF u2.strikes >= 2
      THEN [u2 EXCEPT !.ban_exp = t + RL_BAN_DAYS * DAY_S]
      ELSE [u2 EXCEPT !.ban_exp = t + RL_COOLDOWN_SHORT]

StrikeMsg(u, long, short) == IF u.strikes >= 2 THEN long ELSE short

\* u["burst"] = [t for t in u["burst"] if t_now - t <= SPAM_BURST_S]; append
MemBurst(u, t) ==
  LET keep(x) == t - x <= SPAM_BURST_S
  IN  [u EXCEPT !.burst = Append(SelectSeq(@, keep), t)]

\* mutant: only a ban near its maximum length closes the gate
MemBannedLongOnly(u, t) == u.ban_exp - t >= (RL_BAN_DAYS - 1) * DAY_S

\* if now < u["ban_exp"]
MemBanned(u, t) == t < u.ban_exp

\* mutant: the hour denial is answered without a ban being recorded
MemHourViolationNoBan(u, t) == u

\* the hour quota is exceeded: the short cooldown, no strike
MemHourViolation(u, t) == [u EXCEPT !.ban_exp = t + RL_COOLDOWN_SHORT]

\* mutant: the day quota goes through the strike accounting
MemDayViolationWithStrike(u, t) == MemStrike(u, t)

\* the day quota is exceeded: the long ban, no strike
MemDayViolation(u, t) == [u EXCEPT !.ban_exp = t + RL_BAN_DAYS * DAY_S]

\* rate_limit_check_and_message, in-process branch, for bucket record u at
\* time t: [allowed, msg, u] with u the bucket record afterwards
MemCheck(u, t) ==
  IF MemBanned(u, t)
  THEN [allowed |-> FALSE,
        msg |-> IF u.ban_exp - t >= (RL_BAN_DAYS - 1) * DAY_S
                THEN "banned_long" ELSE "banned",
        u |-> u]
  ELSE
  LET ub == MemBurst(u, t) IN
  IF Len(ub.burst) > SPAM_BURST_N
  THEN LET us == MemStrike(ub, t)
       IN  [allowed |-> FALSE, msg |-> StrikeMsg(us, "burst_long", "burst_short"),
            u |-> us]
  ELSE
  LET um == [ub EXCEPT !.m = _incr_mem_bucket(@, MIN_WINDOW_S, t)] IN
  IF um.m.count > RL_PER_MIN
  THEN LET us == MemStrike(um, t)
       IN  [allowed |-> FALSE, msg |-> StrikeMsg(us, "min_long", "min_short"),
            u |-> us]
  ELSE
  LET uh == [um EXCEPT !.h = _incr_mem_bucket(@, HOUR_WINDOW_S, t)] IN
  IF uh.h.count > RL_PER_HOUR
  THEN [allowed |-> FALSE, msg |-> "hour",
        u |-> MemHourViolation(uh, t)]
  ELSE
  LET ud == [uh EXCEPT !.d = _incr_mem_bucket(@, DAY_S, t)] IN
  IF ud.d.count > RL_PER_DAY
  THEN [allowed |-> FALSE, msg |-> "day",
        u |-> MemDayViolation(ud, t)]
  ELSE [allowed |-> TRUE, msg |-> "none", u |-> ud]

----------------------------------------------------------------------------
(* Shared store: the Redis keys of one user.  A key is [val, exp]: it      *)
(* exists while now < exp (Redis expires lazily or actively, with the same *)
(* visible result), or for ever when exp = TTL_NO_EXPIRY.                  *)

TTL_NO_EXPIRY == -1
TTL_NO_KEY == -2

RedisNoKey == [val |-> 0, exp |-> 0]

RedisDefault ==
  [ban |-> RedisNoKey, burst |-> RedisNoKey, m |-> RedisNoKey,
   h |-> RedisNoKey, d |-> RedisNoKey, str |-> RedisNoKey]

RedisExists(k, t) == k.exp = TTL_NO_EXPIRY \/ t < k.exp

\* the Redis commands TTL, INCR, EXPIRE, GET
RedisTTL(k, t) ==
  IF ~RedisExists(k, t) THEN TTL_NO_KEY
  ELSE IF k.exp = TTL_NO_EXPIRY THEN TTL_NO_EXPIRY
  ELSE k.exp - t

RedisINCR(k, t) ==
  IF RedisExists(k, t) THEN [k EXCEPT !.val = @ + 1]
  ELSE [val |-> 1, exp |-> TTL_NO_EXPIRY]

\* _redis_incr_with_ttl(key, window_s): the key afterwards (cnt is its val)
_redis_incr_with_ttl(k, window_s, t) ==
  LET k1 == RedisINCR(k, t)
      ttl == RedisTTL(k1, t)
  IN  IF ttl \in {TTL_NO_EXPIRY, TTL_NO_KEY}
      THEN [k1 EXCEPT !.exp = t + window_s]
      ELSE k1

\* _redis_ttl(key): the remaining seconds, 0 when there is none
_redis_ttl(k, t) ==
  LET ttl == RedisTTL(k, t) IN IF ttl > 0 THEN ttl ELSE 0

_redis_setex(seconds, value, t) == [val |-> value, exp |-> t + seconds]

_redis_get_int(k, default, t) == IF RedisExists(k, t) THEN k.val ELSE default

\* the strike accounting of the shared store (burst and minute branch)
RedisStrike(r, t) ==
  LET strikes == _redis_get_int(r.str, 0, t) + 1
      r1 == [r EXCEPT !.str = _redis_setex(RL_STRIKE_WINDOW_DAYS * DAY_S, strikes, t)]
  IN  IF strikes >= 2
      THEN [r1 EXCEPT !.ban = _redis_setex(RL_BAN_DAYS * DAY_S, 1, t)]
      ELSE [r1 EXCEPT !.ban = _redis_setex(RL_COOLDOWN_SHORT, 1, t)]

RedisStrikeMsg(r, t, long, short) ==
  IF _redis_get_int(r.str, 0, t) + 1 >= 2 THEN long ELSE short

\* ban_ttl > 0
RedisBanned(r, t) == _redis_ttl(r.ban, t) > 0

\* the hour quota is exceeded: the short cooldown, no strike
RedisHourViolation(r, t) == [r EXCEPT !.ban = _redis_setex(RL_COOLDOWN_SHORT, 1, t)]

\* the day quota is exceeded: the long ban, no strike
RedisDayViolation(r, t) == [r EXCEPT !.ban = _redis_setex(RL_BAN_DAYS * DAY_S, 1, t)]

\* rate_limit_check_and_message, shared-store branch, for the keys r of one
\* user at time t: [allowed, msg, u] with u the keys afterwards
RedisCheck(r, t) ==
  IF RedisBanned(r, t)
  THEN [allowed |-> FALSE,
        msg |-> IF _redis_ttl(r.ban, t) >= (RL_BAN_DAYS - 1) * DAY_S
                THEN "banned_long" ELSE "banned",
        u |-> r]
  ELSE
  LET rb == [r EXCEPT !.burst = _redis_incr_with_ttl(@, SPAM_BURST_S, t)] IN
  IF rb.burst.val > SPAM_BURST_N
  THEN [allowed |-> FALSE,
        msg |-> RedisStrikeMsg(rb, t, "burst_long", "burst_short"),
        u |-> RedisStrike(rb, t)]
  ELSE
  LET rm == [rb EXCEPT !.m = _redis_incr_with_ttl(@, MIN_WINDOW_S, t)] IN
  IF rm.m.val > RL_PER_MIN
  THEN [allowed |-> FALSE,
        msg |-> RedisStrikeMsg(rm, t, "min_long", "min_short"),
        u |-> RedisStrike(rm, t)]
  ELSE
  LET rh == [rm EXCEPT !.h = _redis_incr_with_ttl(@, HOUR_WINDOW_S, t)] IN
  IF rh.h.val > RL_PER_HOUR
  THEN [allowed |-> FALSE, msg |-> "hour",
        u |-> RedisHourViolation(rh, t)]
  ELSE
  LET rd == [rh EXCEPT !.d = _redis_incr_with_ttl(@, DAY_S, t)] IN
  IF rd.d.val > RL_PER_DAY
  THEN [allowed |-> FALSE, msg |-> "day",
        u |-> RedisDayViolation(rd, t)]
  ELSE [allowed |-> TRUE, msg |-> "none", u |-> rd]

----------------------------------------------------------------------------
(* The request handler *)

RECURSIVE LStrip(_)
LStrip(s) == IF s # << >> /\ Head(s) = " " THEN LStrip(Tail(s)) ELSE s

RECURSIVE RStrip(_)
RStrip(s) ==
  IF s # << >> /\ s[Len(s)] = " " THEN RStrip(SubSeq(s, 1, Len(s) - 1)) ELSE s

\* str.strip()
Strip(s) == RStrip(LStrip(s))

\* mutant: the placeholder token is not rejected
CleanKeepsToken(v) ==
  IF v = NoText THEN NoText
  ELSE LET w == Strip(v)
       IN  IF w # << >> THEN w ELSE NoText

\* clean(v) of pick_utter; NoText stands for None and for a value that is
\* no string
clean(v) ==
  IF v = NoText THEN NoText
  ELSE LET w == Strip(v)
       IN  IF w # << >> /\ w # AT_TEXT THEN w ELSE NoText

\* mutant: with no real text in either field, a placeholder that is present
\* is returned as the utterance
PickUtterTokenFallback(usrtext, utterance) ==
  IF clean(usrtext) # NoText THEN clean(usrtext)
  ELSE IF clean(utterance) # NoText THEN clean(utterance)
  ELSE IF (usrtext # NoText /\ Strip(usrtext) = AT_TEXT)
          \/ (utterance # NoText /\ Strip(utterance) = AT_TEXT)
  THEN AT_TEXT
  ELSE NoText

\* pick_utter(payload), from the two candidate fields: u1 or u2
pick_utter(usrtext, utterance) ==
  IF clean(usrtext) # NoText THEN clean(usrtext) ELSE clean(utterance)

\* the user key of the handler: the id of the payload or "anon"
UserKeyOf(id) == IF id = NoId THEN "anon" ELSE id

\* call_chatling(message, timeout_s): one attempt whose outcome the backend
\* decides; the text of the answer or "None"
BackendOutcomes == {"ok", "timeout"}
call_chatling(outcome) == IF outcome = "ok" THEN "answer" ELSE "None"

\* what the backend would do on the first and on the second attempt
Plans == [1..2 -> BackendOutcomes]
NoPlan == << >>

\* rate_limit_check_and_message(user_id) at time t, on the store in use
rate_limit_check_and_message(st, user_id, t) ==
  IF st = "redis" THEN RedisCheck(rds[user_id], t) ELSE MemCheck(mem[user_id], t)

\* the payload fields the handler reads, and the value of the handler's
\* local utter while no request has resolved one
NoPayload == [usrtext |-> NoText, utterance |-> NoText, hasCallback |-> FALSE]
Unresolved == <<"unresolved">>

\* the answer of the other store's variant of the rate limiter when both
\* are fed the same calls; none while only one store is run
NoAnswer == [allowed |-> FALSE, reply |-> "none"]

\* no request thread is inside rate_limit_check_and_message
NoThreads == << >>

NoRequest ==
  [user |-> "none", allowed |-> FALSE, status |-> 0, reply |-> "none",
   calls |-> 0, started |-> 0, plan |-> NoPlan]

\* mutant: in callback mode the request thread itself calls the backend
\* before it acknowledges
DispatchCallsBeforeWait(usrtext, utterance, hasCallback, plan) ==
  LET utter == pick_utter(usrtext, utterance) IN
  IF utter = NoText
  THEN [reply |-> "clarify", calls |-> 0, started |-> 0, plan |-> NoPlan]
  ELSE IF hasCallback
  THEN [reply |-> "wait", calls |-> 1, started |-> 1, plan |-> NoPlan]
  ELSE LET ans == call_chatling(plan[1])
       IN  [reply |-> IF ans # "None" THEN ans ELSE "fallback",
            calls |-> 1, started |-> 0, plan |-> plan]

\* the part of webhook() after the rate check: [reply, calls, started, plan]
Dispatch(usrtext, utterance, hasCallback, plan) ==
  LET utter == pick_utter(usrtext, utterance) IN
  IF utter = NoText
  THEN [reply |-> "clarify", calls |-> 0, started |-> 0, plan |-> NoPlan]
  ELSE IF hasCallback
  THEN [reply |-> "wait", calls |-> 0, started |-> 1, plan |-> NoPlan]
  ELSE LET ans == call_chatling(plan[1])
       IN  [reply |-> IF ans # "None" THEN ans ELSE "fallback",
            calls |-> 1, started |-> 0, plan |-> plan]

\* mutant: the empty check comes first, so that a request without an
\* utterance is answered before the rate limiter has seen it
WebhookEmptyCheckFirst(id, usrtext, utterance, hasCallback, plan) ==
  LET user_id == UserKeyOf(id)
      rl == rate_limit_check_and_message(store, user_id, now)
      dp == Dispatch(usrtext, utterance, hasCallback, plan)
      empty == pick_utter(usrtext, utterance) = NoText
  IN  /\ reqs < MaxReqs
      /\ reqs' = reqs + 1
      /\ IF empty
         THEN UNCHANGED <<mem, rds>>
         ELSE IF store = "redis"
         THEN /\ rds' = [rds EXCEPT ![user_id] = rl.u]
              /\ UNCHANGED mem
         ELSE /\ mem' = [mem EXCEPT ![user_id] = rl.u]
              /\ UNCHANGED rds
      /\ last' = IF ~empty /\ ~rl.allowed
                 THEN [user |-> user_id, allowed |-> FALSE, status |-> 200,
                       reply |-> rl.msg, calls |-> 0, started |-> 0,
                       plan |-> NoPlan]
                 ELSE [user |-> user_id, allowed |-> TRUE, status |-> 200,
                       reply |-> dp.reply, calls |-> dp.calls,
                       started |-> dp.started, plan |-> dp.plan]
      /\ req' = [usrtext |-> usrtext, utterance |-> utterance,
                 hasCallback |-> hasCallback]
      /\ resolved' = pick_utter(usrtext, utterance)
      /\ UNCHANGED <<store, now, ticks, shadow, wvars, thr>>

\* POST /webhook, handled from the first to the last line
Webhook(id, usrtext, utterance, hasCallback, plan) ==
  LET user_id == UserKeyOf(id)
      rl == rate_limit_check_and_message(store, user_id, now)
      dp == Dispatch(usrtext, utterance, hasCallback, plan)
  IN  /\ reqs < MaxReqs
      /\ reqs' = reqs + 1
      /\ IF store = "redis"
         THEN /\ rds' = [rds EXCEPT ![user_id] = rl.u]
              /\ UNCHANGED mem
         ELSE /\ mem' = [mem EXCEPT ![user_id] = rl.u]
              /\ UNCHANGED rds
      /\ last' = IF ~rl.allowed
                 THEN [user |-> user_id, allowed |-> FALSE, status |-> 200,
                       reply |-> rl.msg, calls |-> 0, started |-> 0,
                       plan |-> NoPlan]
                 ELSE [user |-> user_id, allowed |-> TRUE, status |-> 200,
                       reply |-> dp.reply, calls |-> dp.calls,
                       started |-> dp.started, plan |-> dp.plan]
      /\ req' = [usrtext |-> usrtext, utterance |-> utterance,
                 hasCallback |-> hasCallback]
      /\ resolved' = IF rl.allowed THEN pick_utter(usrtext, utterance)
                     ELSE Unresolved
      /\ UNCHANGED <<store, now, ticks, shadow, wvars, thr>>

\* time passes between two requests; the response of the last request has
\* been delivered by then
Tick(d) ==
  /\ ticks < MaxTicks
  /\ ticks' = ticks + 1
  /\ now' = now + d
  /\ last' = NoRequest
  /\ shadow' = NoAnswer
  /\ req' = NoPayload
  /\ resolved' = Unresolved
  /\ UNCHANGED <<store, mem, rds, reqs, wvars, thr>>

\* no bg_worker thread is running
WorkerIdle ==
  /\ wpc = "idle"
  /\ wnow = 0
  /\ wdeadline = 0
  /\ wsleep = 0
  /\ wresult = "None"
  /\ wtimeout = 0
  /\ wcalls = 0
  /\ woks = 0
  /\ callbacks = 0
  /\ cbText = "None"
  /\ cbAt = 0

Init ==
  /\ WorkerIdle
  /\ store \in Stores
  /\ now = StartTime
  /\ mem = [k \in UserKeys |-> MemDefault]
  /\ rds = [k \in UserKeys |-> RedisDefault]
  /\ last = NoRequest
  /\ shadow = NoAnswer
  /\ req = NoPayload
  /\ resolved = Unresolved
  /\ reqs = 0
  /\ ticks = 0
  /\ thr = NoThreads

\* the payloads and backend behaviours of the requests: no text at all, a
\* placeholder with real text and a callback address, and a synchronous
\* request under each behaviour of the backend
Payloads ==
  {<<NoText, AT_TEXT, FALSE, [i \in 1..2 |-> "ok"]>>,
   <<AT_TEXT, PADDED, TRUE, [i \in 1..2 |-> "ok"]>>}
  \cup {<<PADDED, NoText, FALSE, plan>> : plan \in Plans}

----------------------------------------------------------------------------
(* bg_worker, the callback thread.  Its clock wnow is the time since the   *)
(* thread started, in units of 0.1 ms.  The thread shares no state with    *)
(* the rate limiter, so its behaviours are explored from the state in      *)
(* which the handler has just started it (InitWorker).                     *)

BG_BUDGET_S == 500000
BG_BUDGET_CAP == 500000
BG_TRY_TIMEOUT == 400000
SLEEP_START == 3500
SLEEP_CAP == 20000
MIN_TIMEOUT == 1000

\* how long the backend takes to answer, to refuse, and to refuse after
\* it has stalled, 0.1 ms units
AnswerTime == 15000
ErrorTime == 2000
StallTime == 245200

FALLBACK == "fallback"

Min(a, b) == IF a < b THEN a ELSE b
Max(a, b) == IF a > b THEN a ELSE b

\* deadline = time.time() + min(BG_BUDGET_S, 50)
WorkerDeadline(t) == t + Min(BG_BUDGET_S, BG_BUDGET_CAP)

\* while time.time() < deadline
WorkerLoopCond(t, deadline) == t < deadline

\* timeout_s = min(BG_TRY_TIMEOUT, max(0.1, deadline - time.time()))
AttemptTimeout(t, deadline) == Min(BG_TRY_TIMEOUT, Max(MIN_TIMEOUT, deadline - t))

\* time.sleep(min(sleep, 2.0))
SleepTime(sleep) == Min(sleep, SLEEP_CAP)

\* sleep *= 1.6; above SLEEP_CAP the value is only read through
\* min(sleep, 2.0), so the model stops growing it there
SleepGrow(sleep) == IF sleep > SLEEP_CAP THEN sleep ELSE (sleep * 16) \div 10

\* result or the fixed fallback text
CallbackText(result) == IF result # "None" THEN result ELSE FALLBACK

\* mutant: the break after a successful attempt is missing
AfterAttemptNoBreak(result) == "sleep"

\* where the loop goes after an attempt: break on a result, else sleep
AfterAttempt(result) == IF result # "None" THEN "send" ELSE "sleep"

\* one attempt of the backend as the worker sees it: how long
\* call_chatling takes under the timeout and what it returns
Attempts(timeout) ==
  {[took |-> Min(AnswerTime, timeout),
    result |-> IF AnswerTime <= timeout THEN call_chatling("ok")
               ELSE call_chatling("timeout")],
   [took |-> Min(ErrorTime, timeout), result |-> call_chatling("timeout")],
   [took |-> Min(StallTime, timeout), result |-> call_chatling("timeout")],
   [took |-> timeout, result |-> call_chatling("timeout")],
   [took |-> 0, result |-> call_chatling("timeout")]}

\* bg_worker up to the loop: deadline, sleep = 0.35, result = None
WorkerStart ==
  /\ wpc = "start"
  /\ wdeadline' = WorkerDeadline(wnow)
  /\ wsleep' = SLEEP_START
  /\ wresult' = "None"
  /\ wpc' = "loop"
  /\ UNCHANGED <<wnow, wtimeout, wcalls, woks, callbacks, cbText, cbAt, rlvars, thr>>

\* the loop condition; on entry the attempt's timeout is computed
WorkerLoop ==
  /\ wpc = "loop"
  /\ IF WorkerLoopCond(wnow, wdeadline)
     THEN /\ wpc' = "call"
          /\ wtimeout' = AttemptTimeout(wnow, wdeadline)
     ELSE /\ wpc' = "send"
          /\ UNCHANGED wtimeout
  /\ UNCHANGED <<wnow, wdeadline, wsleep, wresult, wcalls, woks, callbacks,
                 cbText, cbAt, rlvars, thr>>

\* result = call_chatling(utter, timeout_s); if result: break
WorkerCall(a) ==
  /\ wpc = "call"
  /\ wnow' = wnow + a.took
  /\ wresult' = a.result
  /\ wcalls' = wcalls + 1
  /\ woks' = IF a.result # "None" THEN woks + 1 ELSE woks
  /\ wpc' = AfterAttempt(a.result)
  /\ UNCHANGED <<wdeadline, wsleep, wtimeout, callbacks, cbText, cbAt, rlvars, thr>>

\* time.sleep(min(sleep, 2.0)); sleep *= 1.6
WorkerSleep ==
  /\ wpc = "sleep"
  /\ wnow' = wnow + SleepTime(wsleep)
  /\ wsleep' = SleepGrow(wsleep)
  /\ wpc' = "loop"
  /\ UNCHANGED <<wdeadline, wresult, wtimeout, wcalls, woks, callbacks, cbText,
                 cbAt, rlvars, thr>>

\* send_callback(callback_url, result or fallback, cb_token): one POST,
\* whose failure is logged and swallowed
WorkerSend ==
  /\ wpc = "send"
  /\ callbacks' = callbacks + 1
  /\ cbText' = CallbackText(wresult)
  /\ cbAt' = wnow
  /\ wpc' = "done"
  /\ UNCHANGED <<wnow, wdeadline, wsleep, wresult, wtimeout, wcalls, woks,
                 rlvars, thr>>

WorkerAttempt == \E a \in Attempts(wtimeout) : WorkerCall(a)

NextWorker ==
  WorkerStart \/ WorkerLoop \/ WorkerAttempt \/ WorkerSleep \/ WorkerSend

\* the state right after threading.Thread(target=bg_worker, ...).start()
InitWorker ==
  /\ store = "mem"
  /\ now = StartTime
  /\ mem = [k \in UserKeys |-> MemDefault]
  /\ rds = [k \in UserKeys |-> RedisDefault]
  /\ last = [user |-> "u1", allowed |-> TRUE, status |-> 200, reply |-> "wait",
             calls |-> 0, started |-> 1, plan |-> NoPlan]
  /\ shadow = NoAnswer
  /\ req = [usrtext |-> AT_TEXT, utterance |-> PADDED, hasCallback |-> TRUE]
  /\ resolved = pick_utter(AT_TEXT, PADDED)
  /\ reqs = 1
  /\ ticks = 0
  /\ thr = NoThreads
  /\ wpc = "start"
  /\ wnow = 0
  /\ wdeadline = 0
  /\ wsleep = 0
  /\ wresult = "None"
  /\ wtimeout = 0
  /\ wcalls = 0
  /\ woks = 0
  /\ callbacks = 0
  /\ cbText = "None"
  /\ cbAt = 0

\* a started thread keeps running: every step of it returns (the HTTP calls
\* carry timeouts, the sleep is finite)
SpecWorker == InitWorker /\ [][NextWorker]_vars /\ WF_vars(NextWorker)

----------------------------------------------------------------------------
Request ==
  \E id \in Ids, p \in Payloads : Webhook(id, p[1], p[2], p[3], p[4])

TimePasses == \E d \in Jumps : Tick(d)

Next == Request \/ TimePasses

Spec == Init /\ [][Next]_vars

----------------------------------------------------------------------------
(* The two variants of rate_limit_check_and_message side by side: every    *)
(* call is made at the same time on the in-process record and on the       *)
(* Redis keys of the same user.  last is the answer of the in-process      *)
(* variant, shadow the answer of the Redis variant.                        *)

\* the clock also advances by a single second between two calls
PairJumps == {1} \cup Jumps

CheckBoth(id) ==
  LET user_id == UserKeyOf(id)
      rm == MemCheck(mem[user_id], now)
      rr == RedisCheck(rds[user_id], now)
  IN  /\ reqs < MaxReqs
      /\ reqs' = reqs + 1
      /\ mem' = [mem EXCEPT ![user_id] = rm.u]
      /\ rds' = [rds EXCEPT ![user_id] = rr.u]
      /\ last' = [user |-> user_id, allowed |-> rm.allowed, status |-> 200,
                  reply |-> rm.msg, calls |-> 0, started |-> 0,
                  plan |-> NoPlan]
      /\ shadow' = [allowed |-> rr.allowed, reply |-> rr.msg]
      /\ UNCHANGED <<store, now, ticks, req, resolved, wvars, thr>>

InitPair ==
  /\ Init
  /\ store = "mem"

CallBoth == \E id \in Ids : CheckBoth(id)

TimePassesPair == \E d \in PairJumps : Tick(d)

NextPair == CallBoth \/ TimePassesPair

SpecPair == InitPair /\ [][NextPair]_vars

----------------------------------------------------------------------------
(* Overlapping calls of rate_limit_check_and_message for one user: the     *)
(* handler runs on one thread per request and the function takes no lock.  *)
(* Each thread is followed statement by statement; a statement that reads  *)
(* and writes shared state (count += 1, the list comprehension assigned    *)
(* back to u["burst"], GET followed by SETEX) is a read step and a write   *)
(* step, between which another thread may run.  A Redis command, and the   *)
(* INCR/TTL pipeline (MULTI/EXEC), is one step.  The calls overlap inside  *)
(* one second, so every thread reads the same clock value.                 *)
(*                                                                         *)
(* thr[i] is thread i: pc its position, t the time of its call, b the      *)
(* bucket it is working on, tmp and lst its local values, res its answer.  *)
(* The calls of the user's history, made one after the other before the    *)
(* overlapping ones, are the threads that have already returned.           *)

\* the user whose requests overlap, and how many overlap
ConcUser == "u1"
NConc == 2

LimitOf(b) ==
  IF b = "burst" THEN SPAM_BURST_N
  ELSE IF b = "m" THEN RL_PER_MIN
  ELSE IF b = "h" THEN RL_PER_HOUR ELSE RL_PER_DAY

WindowOf(b) ==
  IF b = "burst" THEN SPAM_BURST_S
  ELSE IF b = "m" THEN MIN_WINDOW_S
  ELSE IF b = "h" THEN HOUR_WINDOW_S ELSE DAY_S

\* the bucket checked after bucket b
NextBucket(b) == IF b = "burst" THEN "m" ELSE IF b = "m" THEN "h" ELSE "d"

\* the calls made before the overlapping ones (times), and the second in
\* which the overlapping calls are made (at): a new user; one call a few
\* seconds ago; two calls in this second; a user with one strike whose
\* cooldown is over and who has used up the hour quota
Histories ==
  {[times |-> << >>, at |-> StartTime],
   [times |-> <<StartTime>>, at |-> StartTime + SPAM_BURST_S + 1],
   [times |-> <<StartTime, StartTime>>, at |-> StartTime],
   [times |-> <<StartTime, StartTime, StartTime,
                StartTime + RL_COOLDOWN_SHORT>>,
    at |-> StartTime + RL_COOLDOWN_SHORT + SPAM_BURST_S + 1]}

CheckAt(st, rec, t) ==
  IF st = "redis" THEN RedisCheck(rec, t) ELSE MemCheck(rec, t)

DefaultOf(st) == IF st = "redis" THEN RedisDefault ELSE MemDefault

\* the user's record after calls at the given times, one after the other
RECURSIVE RecordAfter(_, _, _)
RecordAfter(st, rec, times) ==
  IF times = << >> THEN rec
  ELSE RecordAfter(st, CheckAt(st, rec, Head(times)).u, Tail(times))

\* a thread entering the function at time t
Entering(t) ==
  [pc |-> "gate", t |-> t, b |-> "burst", tmp |-> 0, lst |-> << >>,
   res |-> "none"]

\* the threads of the calls of the history, all returned
Returned(st, times) ==
  [i \in 1..Len(times) |->
     LET rec == RecordAfter(st, DefaultOf(st), SubSeq(times, 1, i - 1))
     IN  [pc |-> "done", t |-> times[i], b |-> "burst", tmp |-> 0,
          lst |-> << >>,
          res |-> IF CheckAt(st, rec, times[i]).allowed THEN "allowed"
                  ELSE "denied"]]

InitConc ==
  /\ WorkerIdle
  /\ store \in Stores
  /\ \E h \in Histories :
       /\ now = h.at
       /\ mem = [k \in UserKeys |->
                   IF k = ConcUser /\ store = "mem"
                   THEN RecordAfter("mem", MemDefault, h.times)
                   ELSE MemDefault]
       /\ rds = [k \in UserKeys |->
                   IF k = ConcUser /\ store = "redis"
                   THEN RecordAfter("redis", RedisDefault, h.times)
                   ELSE RedisDefault]
       /\ thr = Returned(store, h.times) \o [i \in 1..NConc |-> Entering(h.at)]
       /\ reqs = Len(h.times)
  /\ last = NoRequest
  /\ shadow = NoAnswer
  /\ req = NoPayload
  /\ resolved = Unresolved
  /\ ticks = 0

\* what a step of a thread leaves alone
concfixed == <<store, now, last, shadow, req, resolved, reqs, ticks, wvars>>

At(i, pc) == i \in DOMAIN thr /\ thr[i].pc = pc

MemStep(i, u, th) ==
  /\ store = "mem"
  /\ mem' = [mem EXCEPT ![ConcUser] = u]
  /\ thr' = [thr EXCEPT ![i] = th]
  /\ UNCHANGED <<rds, concfixed>>

RedisStep(i, r, th) ==
  /\ store = "redis"
  /\ rds' = [rds EXCEPT ![ConcUser] = r]
  /\ thr' = [thr EXCEPT ![i] = th]
  /\ UNCHANGED <<mem, concfixed>>

\* 0) the ban gate: if now < u["ban_exp"] / if ban_ttl > 0
TGate(i) ==
  /\ At(i, "gate")
  /\ IF store = "redis"
     THEN RedisStep(i, rds[ConcUser],
            IF RedisBanned(rds[ConcUser], now)
            THEN [thr[i] EXCEPT !.pc = "done", !.res = "denied"]
            ELSE [thr[i] EXCEPT !.pc = "r_incr", !.b = "burst"])
     ELSE MemStep(i, mem[ConcUser],
            IF MemBanned(mem[ConcUser], now)
            THEN [thr[i] EXCEPT !.pc = "done", !.res = "denied"]
            ELSE [thr[i] EXCEPT !.pc = "b_filter"])

\* [t for t in u["burst"] if t_now - t <= SPAM_BURST_S]: the new list
TBurstFilter(i) ==
  /\ At(i, "b_filter")
  /\ LET keep(x) == now - x <= SPAM_BURST_S
     IN  MemStep(i, mem[ConcUser],
           [thr[i] EXCEPT !.pc = "b_store",
                          !.lst = SelectSeq(mem[ConcUser].burst, keep)])

\* u["burst"] = the new list
TBurstStore(i) ==
  /\ At(i, "b_store")
  /\ MemStep(i, [mem[ConcUser] EXCEPT !.burst = thr[i].lst],
             [thr[i] EXCEPT !.pc = "b_append", !.lst = << >>])

\* u["burst"].append(t_now)
TBurstAppend(i) ==
  /\ At(i, "b_append")
  /\ MemStep(i, [mem[ConcUser] EXCEPT !.burst = Append(@, now)],
             [thr[i] EXCEPT !.pc = "b_len"])

\* if len(u["burst"]) > SPAM_BURST_N
TBurstLen(i) ==
  /\ At(i, "b_len")
  /\ MemStep(i, mem[ConcUser],
       IF Len(mem[ConcUser].burst) > SPAM_BURST_N
       THEN [thr[i] EXCEPT !.pc = "s_check"]
       ELSE [thr[i] EXCEPT !.pc = "i_check", !.b = "m"])

\* if u["strike_exp"] < now
TStrikeCheck(i) ==
  /\ At(i, "s_check")
  /\ MemStep(i, mem[ConcUser],
       IF mem[ConcUser].strike_exp < now
       THEN [thr[i] EXCEPT !.pc = "s_zero"]
       ELSE [thr[i] EXCEPT !.pc = "s_read"])

\* u["strikes"] = 0
TStrikeZero(i) ==
  /\ At(i, "s_zero")
  /\ MemStep(i, [mem[ConcUser] EXCEPT !.strikes = 0],
             [thr[i] EXCEPT !.pc = "s_exp"])

\* u["strike_exp"] = now + RL_STRIKE_WINDOW_DAYS*86400
TStrikeExp(i) ==
  /\ At(i, "s_exp")
  /\ MemStep(i, [mem[ConcUser] EXCEPT
                   !.strike_exp = now + RL_STRIKE_WINDOW_DAYS * DAY_S],
             [thr[i] EXCEPT !.pc = "s_read"])

\* u["strikes"] += 1, the read
TStrikeRead(i) ==
  /\ At(i, "s_read")
  /\ MemStep(i, mem[ConcUser],
             [thr[i] EXCEPT !.pc = "s_write", !.tmp = mem[ConcUser].strikes])

\* u["strikes"] += 1, the write
TStrikeWrite(i) ==
  /\ At(i, "s_write")
  /\ MemStep(i, [mem[ConcUser] EXCEPT !.strikes = thr[i].tmp + 1],
             [thr[i] EXCEPT !.pc = "s_test", !.tmp = 0])

\* if u["strikes"] >= 2
TStrikeTest(i) ==
  /\ At(i, "s_test")
  /\ MemStep(i, mem[ConcUser],
       IF mem[ConcUser].strikes >= 2
       THEN [thr[i] EXCEPT !.pc = "ban_long"]
       ELSE [thr[i] EXCEPT !.pc = "ban_short"])

\* the long ban is written and the call returns its denial
TBanLong(i) ==
  /\ At(i, "ban_long")
  /\ IF store = "redis"
     THEN RedisStep(i, [rds[ConcUser] EXCEPT
                          !.ban = _redis_setex(RL_BAN_DAYS * DAY_S, 1, now)],
                    [thr[i] EXCEPT !.pc = "done", !.res = "denied"])
     ELSE MemStep(i, [mem[ConcUser] EXCEPT
                        !.ban_exp = now + RL_BAN_DAYS * DAY_S],
                  [thr[i] EXCEPT !.pc = "done", !.res = "denied"])

\* the short cooldown is written and the call returns its denial
TBanShort(i) ==
  /\ At(i, "ban_short")
  /\ IF store = "redis"
     THEN RedisStep(i, [rds[ConcUser] EXCEPT
                          !.ban = _redis_setex(RL_COOLDOWN_SHORT, 1, now)],
                    [thr[i] EXCEPT !.pc = "done", !.res = "denied"])
     ELSE MemStep(i, [mem[ConcUser] EXCEPT
                        !.ban_exp = now + RL_COOLDOWN_SHORT],
                  [thr[i] EXCEPT !.pc = "done", !.res = "denied"])

\* _incr_mem_bucket: if now > bkt["exp"]
TIncrCheck(i) ==
  /\ At(i, "i_check")
  /\ MemStep(i, mem[ConcUser],
       IF now > mem[ConcUser][thr[i].b].exp
       THEN [thr[i] EXCEPT !.pc = "i_zero"]
       ELSE [thr[i] EXCEPT !.pc = "i_read"])

\* bkt["count"] = 0
TIncrZero(i) ==
  /\ At(i, "i_zero")
  /\ MemStep(i, [mem[ConcUser] EXCEPT ![thr[i].b].count = 0],
             [thr[i] EXCEPT !.pc = "i_exp"])

\* bkt["exp"] = now + window_s
TIncrExp(i) ==
  /\ At(i, "i_exp")
  /\ MemStep(i, [mem[ConcUser] EXCEPT ![thr[i].b].exp = now + WindowOf(thr[i].b)],
             [thr[i] EXCEPT !.pc = "i_read"])

\* bkt["count"] += 1, the read
TIncrRead(i) ==
  /\ At(i, "i_read")
  /\ MemStep(i, mem[ConcUser],
             [thr[i] EXCEPT !.pc = "i_write",
                            !.tmp = mem[ConcUser][thr[i].b].count])

\* bkt["count"] += 1, the write
TIncrWrite(i) ==
  /\ At(i, "i_write")
  /\ MemStep(i, [mem[ConcUser] EXCEPT ![thr[i].b].count = thr[i].tmp + 1],
             [thr[i] EXCEPT !.pc = "i_ret", !.tmp = 0])

\* return bkt["count"], compared with the bucket's limit by the caller
TIncrReturn(i) ==
  /\ At(i, "i_ret")
  /\ LET b == thr[i].b
         over == mem[ConcUser][b].count > LimitOf(b)
     IN  MemStep(i, mem[ConcUser],
           IF over
           THEN [thr[i] EXCEPT !.pc = IF b = "m" THEN "s_check"
                                      ELSE IF b = "h" THEN "ban_short"
                                      ELSE "ban_long"]
           ELSE IF b = "d"
           THEN [thr[i] EXCEPT !.pc = "done", !.res = "allowed"]
           ELSE [thr[i] EXCEPT !.pc = "i_check", !.b = NextBucket(b)])

\* _redis_incr_with_ttl: the pipeline INCR, TTL
RIncr(i) ==
  /\ At(i, "r_incr")
  /\ LET b == thr[i].b
         k1 == RedisINCR(rds[ConcUser][b], now)
     IN  RedisStep(i, [rds[ConcUser] EXCEPT ![b] = k1],
           [thr[i] EXCEPT !.tmp = k1.val,
                          !.pc = IF RedisTTL(k1, now) \in {TTL_NO_EXPIRY, TTL_NO_KEY}
                                 THEN "r_expire" ELSE "r_ret"])

\* _redis_incr_with_ttl: _redis.expire(key, window_s)
RExpire(i) ==
  /\ At(i, "r_expire")
  /\ LET b == thr[i].b
     IN  RedisStep(i,
           IF RedisExists(rds[ConcUser][b], now)
           THEN [rds[ConcUser] EXCEPT ![b].exp = now + WindowOf(b)]
           ELSE rds[ConcUser],
           [thr[i] EXCEPT !.pc = "r_ret"])

\* return int(cnt), compared with the bucket's limit by the caller
RIncrReturn(i) ==
  /\ At(i, "r_ret")
  /\ LET b == thr[i].b
         over == thr[i].tmp > LimitOf(b)
     IN  RedisStep(i, rds[ConcUser],
           IF over
           THEN [thr[i] EXCEPT !.tmp = 0,
                               !.pc = IF b \in {"burst", "m"} THEN "rs_get"
                                      ELSE IF b = "h" THEN "ban_short"
                                      ELSE "ban_long"]
           ELSE IF b = "d"
           THEN [thr[i] EXCEPT !.tmp = 0, !.pc = "done", !.res = "allowed"]
           ELSE [thr[i] EXCEPT !.tmp = 0, !.pc = "r_incr",
                               !.b = NextBucket(b)])

\* strikes = _redis_get_int(strikes_key, 0) + 1
RStrikeGet(i) ==
  /\ At(i, "rs_get")
  /\ RedisStep(i, rds[ConcUser],
       [thr[i] EXCEPT !.pc = "rs_set",
                      !.tmp = _redis_get_int(rds[ConcUser].str, 0, now) + 1])

\* _redis_setex(strikes_key, RL_STRIKE_WINDOW_DAYS*86400, str(strikes));
\* if strikes >= 2
RStrikeSet(i) ==
  /\ At(i, "rs_set")
  /\ RedisStep(i, [rds[ConcUser] EXCEPT
                     !.str = _redis_setex(RL_STRIKE_WINDOW_DAYS * DAY_S,
                                          thr[i].tmp, now)],
       [thr[i] EXCEPT !.tmp = 0,
                      !.pc = IF thr[i].tmp >= 2 THEN "ban_long"
                             ELSE "ban_short"])

Gate == \E i \in DOMAIN thr : TGate(i)
BurstFilter == \E i \in DOMAIN thr : TBurstFilter(i)
BurstStore == \E i \in DOMAIN thr : TBurstStore(i)
BurstAppend == \E i \in DOMAIN thr : TBurstAppend(i)
BurstLen == \E i \in DOMAIN thr : TBurstLen(i)
StrikeCheck == \E i \in DOMAIN thr : TStrikeCheck(i)
StrikeZero == \E i \in DOMAIN thr : TStrikeZero(i)
StrikeExp == \E i \in DOMAIN thr : TStrikeExp(i)
StrikeRead == \E i \in DOMAIN thr : TStrikeRead(i)
StrikeWrite == \E i \in DOMAIN thr : TStrikeWrite(i)
StrikeTest == \E i \in DOMAIN thr : TStrikeTest(i)
BanLong == \E i \in DOMAIN thr : TBanLong(i)
BanShort == \E i \in DOMAIN thr : TBanShort(i)
IncrCheck == \E i \in DOMAIN thr : TIncrCheck(i)
IncrZero == \E i \in DOMAIN thr : TIncrZero(i)
IncrExp == \E i \in DOMAIN thr : TIncrExp(i)
IncrRead == \E i \in DOMAIN thr : TIncrRead(i)
IncrWrite == \E i \in DOMAIN thr : TIncrWrite(i)
IncrReturn == \E i \in DOMAIN thr : TIncrReturn(i)
RedisIncr == \E i \in DOMAIN thr : RIncr(i)
RedisExpire == \E i \in DOMAIN thr : RExpire(i)
RedisIncrReturn == \E i \in DOMAIN thr : RIncrReturn(i)
RedisStrikeGet == \E i \in DOMAIN thr : RStrikeGet(i)
RedisStrikeSet == \E i \in DOMAIN thr : RStrikeSet(i)

NextConc ==
  \/ Gate \/ BurstFilter \/ BurstStore \/ BurstAppend \/ BurstLen
  \/ StrikeCheck \/ StrikeZero \/ StrikeExp \/ StrikeRead \/ StrikeWrite
  \/ StrikeTest \/ BanLong \/ BanShort
  \/ IncrCheck \/ IncrZero \/ IncrExp \/ IncrRead \/ IncrWrite \/ IncrReturn
  \/ RedisIncr \/ RedisExpire \/ RedisIncrReturn
  \/ RedisStrikeGet \/ RedisStrikeSet

SpecConc == InitConc /\ [][NextConc]_vars

----------------------------------------------------------------------------
(* pick_utter over the values the two candidate fields can hold: the       *)
(* request that arrives is drawn in the initial state and then handled.    *)

PADDED_TOKEN == <<" ">> \o AT_TEXT \o <<" ">>

\* missing (or no string), empty, blank, the token bare and padded, text
\* bare, padded and with an inner blank, and texts that resemble the token
Texts ==
  {NoText, << >>, <<" ">>, AT_TEXT, PADDED_TOKEN, PADDED, <<"h", "i">>,
   <<"h", " ", "i">>, <<"@">>, AT_TEXT \o <<"s">>}

UtterPayloads ==
  [usrtext : Texts, utterance : Texts, hasCallback : BOOLEAN]

OkPlan == [i \in 1..2 |-> "ok"]

InitUtter ==
  /\ WorkerIdle
  /\ store \in Stores
  /\ now = StartTime
  /\ mem = [k \in UserKeys |-> MemDefault]
  /\ rds = [k \in UserKeys |-> RedisDefault]
  /\ last = NoRequest
  /\ shadow = NoAnswer
  /\ req \in UtterPayloads
  /\ resolved = Unresolved
  /\ reqs = 0
  /\ ticks = 0
  /\ thr = NoThreads

RequestUtter ==
  \E id \in Ids :
    Webhook(id, req.usrtext, req.utterance, req.hasCallback, OkPlan)

SpecUtter == InitUtter /\ [][RequestUtter]_vars

----------------------------------------------------------------------------
(* Requests during which a step of the handler raises.  webhook() has no   *)
(* try/except and the application registers no error handler, so Flask     *)
(* answers such a request with status 500.                                 *)

ServerError(user) ==
  [user |-> user, allowed |-> FALSE, status |-> 500, reply |-> "server_error",
   calls |-> 0, started |-> 0, plan |-> NoPlan]

\* userRequest.user.id is a JSON object or array: _mem_buckets[user_id]
\* raises TypeError (unhashable) in the ban check, before any write
WebhookUnhashableId ==
  /\ store = "mem"
  /\ reqs < MaxReqs
  /\ reqs' = reqs + 1
  /\ last' = ServerError("unhashable")
  /\ req' = NoPayload
  /\ resolved' = Unresolved
  /\ UNCHANGED <<store, now, mem, rds, ticks, shadow, wvars, thr>>

\* Redis cannot be reached during the request: _redis_ttl swallows the
\* error and returns 0, then pipe.execute() in _redis_incr_with_ttl raises
WebhookStoreDown(id) ==
  /\ store = "redis"
  /\ reqs < MaxReqs
  /\ reqs' = reqs + 1
  /\ last' = ServerError(UserKeyOf(id))
  /\ req' = NoPayload
  /\ resolved' = Unresolved
  /\ UNCHANGED <<store, now, mem, rds, ticks, shadow, wvars, thr>>

StoreDownRequest == \E id \in Ids : WebhookStoreDown(id)

NextFault == Next \/ WebhookUnhashableId \/ StoreDownRequest

SpecFault == Init /\ [][NextFault]_vars

----------------------------------------------------------------------------
(* Vocabulary of the properties: what a user's ban, strikes and buckets    *)
(* are in the store in use.                                                *)

Buckets == {"m", "h", "d"}
Limit(b) == IF b = "m" THEN RL_PER_MIN ELSE IF b = "h" THEN RL_PER_HOUR ELSE RL_PER_DAY
Window(b) == IF b = "m" THEN MIN_WINDOW_S ELSE IF b = "h" THEN HOUR_WINDOW_S ELSE DAY_S
DenyReplies(b) ==
  IF b = "m" THEN {"min_long", "min_short"} ELSE IF b = "h" THEN {"hour"} ELSE {"day"}
BanReplies == {"banned", "banned_long"}
StrikeReplies == {"burst_long", "burst_short", "min_long", "min_short"}
LongReplies == {"burst_long", "min_long"}
LongBan == RL_BAN_DAYS * DAY_S

BanExpiry(k) == IF store = "redis" THEN rds[k].ban.exp ELSE mem[k].ban_exp
BanActive(k) == now < BanExpiry(k)

\* the bucket as stored, and whether its window is over at the present time
Bucket(k, b) ==
  IF store = "redis" THEN [count |-> rds[k][b].val, exp |-> rds[k][b].exp]
  ELSE mem[k][b]
Expired(k, b) ==
  IF store = "redis" THEN now >= rds[k][b].exp ELSE now > mem[k][b].exp

\* the strike record as stored, and the strikes that still count at the
\* present time (the in-process store forgets them when strike_exp < now,
\* the Redis key str: is gone when its time to live is over)
StrikeRecord(k) ==
  IF store = "redis" THEN <<rds[k].str.val, rds[k].str.exp>>
  ELSE <<mem[k].strikes, mem[k].strike_exp>>
LiveStrikes(k) ==
  IF store = "redis"
  THEN IF now < rds[k].str.exp THEN rds[k].str.val ELSE 0
  ELSE IF now <= mem[k].strike_exp THEN mem[k].strikes ELSE 0

\* this step is the handling of one request of user k
Handled(k) == reqs' = reqs + 1 /\ last'.user = k

C3_BucketBoundary ==
  [][\A k \in UserKeys : \A b \in Buckets :
       (Handled(k) /\ Bucket(k, b)' # Bucket(k, b))
         => /\ IF Expired(k, b)
               THEN Bucket(k, b)' = [count |-> 1, exp |-> now + Window(b)]
               ELSE Bucket(k, b)' = [count |-> Bucket(k, b).count + 1,
                                     exp |-> Bucket(k, b).exp]
            /\ Bucket(k, b)'.count <= Limit(b) => last'.reply \notin DenyReplies(b)
            /\ (b = "d" /\ Bucket(k, b)'.count <= Limit(b)) => last'.allowed
            /\ Bucket(k, b)'.count = Limit(b) + 1
                 => ~last'.allowed /\ last'.reply \in DenyReplies(b)]_vars

\* the request that made the hour bucket read limit + 1 was denied, in the
\* same request that restarted the minute bucket at 1
C3_Witness ==
  /\ last.reply = "hour"
  /\ Bucket(last.user, "h").count = RL_PER_HOUR + 1
  /\ Bucket(last.user, "m") = [count |-> 1, exp |-> now + MIN_WINDOW_S]

\* C4: no minute, hour or day counter ever reads more than its limit + 1
C4_CounterAtMostLimitPlusOne ==
  \A k \in UserKeys : \A b \in Buckets : Bucket(k, b).count <= Limit(b) + 1

\* C5: a request over the hour quota adds a strike and is escalated like a
\* minute violation: long ban on a second-or-later strike, else cooldown
C5_HourViolationStrikes ==
  [][\A k \in UserKeys :
       (Handled(k) /\ last'.reply = "hour")
         => /\ LiveStrikes(k)' = LiveStrikes(k) + 1
            /\ BanExpiry(k)' = now + (IF LiveStrikes(k) >= 1 THEN LongBan
                                       ELSE RL_COOLDOWN_SHORT)]_vars

\* C6: a request that takes the day bucket over its limit is denied with
\* the long ban whatever the strikes, and the strike record is untouched
C6_DayViolationLongBan ==
  [][\A k \in UserKeys :
       (Handled(k) /\ Bucket(k, "d")' # Bucket(k, "d")
          /\ Bucket(k, "d")'.count > RL_PER_DAY)
         => /\ ~last'.allowed
            /\ last'.reply = "day"
            /\ BanExpiry(k)' = now + LongBan
            /\ StrikeRecord(k)' = StrikeRecord(k)]_vars

\* the day quota was exceeded by a user who already had a strike
C6_Witness ==
  /\ last.reply = "day"
  /\ LiveStrikes(last.user) = 1
  /\ BanExpiry(last.user) = now + LongBan

\* C7: a started worker ends, having called send_callback exactly once;
\* when no attempt returned a text the callback carries the fallback text,
\* otherwise the backend's answer
C7_ExactlyOneCallback ==
  /\ [](callbacks <= 1)
  /\ [](wpc # "done" => callbacks = 0)
  /\ <>[](/\ wpc = "done"
          /\ callbacks = 1
          /\ cbText = (IF woks = 0 THEN FALLBACK ELSE "answer"))

\* the worker has ended after several attempts that all failed, with one
\* callback carrying the fallback text
C7_Witness ==
  /\ wpc = "done"
  /\ wcalls >= 2
  /\ woks = 0
  /\ callbacks = 1
  /\ cbText = FALLBACK

\* C8: send_callback is called at or before the worker's deadline
C8_CallbackByDeadline == callbacks > 0 => cbAt <= wdeadline

\* C9: a synchronous request whose first backend attempt fails and whose
\* second attempt would succeed is answered with the backend's answer
C9_SyncRetrySucceeds ==
  (last.plan # NoPlan /\ last.plan[1] = "timeout" /\ last.plan[2] = "ok")
    => last.reply = "answer"

\* C10: every handled request is answered with status 200 and a reply of
\* the platform's envelope
C10_AlwaysStatus200 ==
  last # NoRequest => (last.status = 200 /\ last.reply # "server_error")

\* what the store in use holds for user k
Stored(k) == IF store = "redis" THEN rds[k] ELSE mem[k]

\* the text a request's two candidate fields resolve to
ResolvedOf(r) == pick_utter(r.usrtext, r.utterance)

\* C13: an allowed request with a non-empty utterance that carries a
\* callback address starts exactly one worker and is answered with the
\* wait text, with no backend call on the request thread; without a
\* callback address no worker is started and the reply is the result of
\* the one synchronous attempt (the answer, or the busy text)
C13_DispatchByCallback ==
  [][\A k \in UserKeys :
       (Handled(k) /\ last'.allowed /\ ResolvedOf(req') # NoText)
         => IF req'.hasCallback
            THEN /\ last'.started = 1
                 /\ last'.reply = "wait"
                 /\ last'.calls = 0
            ELSE /\ last'.started = 0
                 /\ last'.calls = 1
                 /\ last'.reply = (IF last'.plan[1] = "ok" THEN "answer"
                                    ELSE "fallback")]_vars

\* a request with a callback address and real text was acknowledged with
\* the wait text, one worker started, after an earlier request of the
\* same user
C13_Witness ==
  /\ reqs >= 2
  /\ last.allowed
  /\ req.hasCallback
  /\ resolved = Strip(PADDED)
  /\ last.reply = "wait"
  /\ last.started = 1
  /\ last.calls = 0

\* C14: a request without an utterance passes the rate limiter before
\* anything else: under an active ban it is denied with the ban message,
\* otherwise its user's record is updated (the minute counter counts it
\* whenever it gets past the burst check); when allowed it is answered
\* with the clarification prompt, with no backend call and no worker
C14_RateCheckBeforeEmptyCheck ==
  [][\A k \in UserKeys :
       (Handled(k) /\ ResolvedOf(req') = NoText)
         => /\ BanActive(k) => ~last'.allowed /\ last'.reply \in BanReplies
            /\ ~BanActive(k) => Stored(k)' # Stored(k)
            /\ (last'.allowed \/ last'.reply \in DenyReplies("m"))
                 => Bucket(k, "m")'.count
                      = (IF Expired(k, "m") THEN 1
                         ELSE Bucket(k, "m").count + 1)
            /\ last'.allowed => /\ last'.reply = "clarify"
                                /\ last'.calls = 0
                                /\ last'.started = 0]_vars

\* a request without an utterance was denied for exceeding the minute
\* quota, which it had itself pushed over the limit
C14_Witness ==
  /\ ResolvedOf(req) = NoText
  /\ req # NoPayload
  /\ last.reply \in DenyReplies("m")
  /\ Bucket(last.user, "m").count = RL_PER_MIN + 1

\* real text: a string that, trimmed, is neither empty nor the token
RealText(v) == v # NoText /\ Strip(v) # << >> /\ Strip(v) # AT_TEXT

\* the field holds the placeholder token
IsToken(v) == v # NoText /\ Strip(v) = AT_TEXT

\* C15: when exactly one of the two candidate fields holds real text (the
\* other is the token, empty, blank or missing), pick_utter returns that
\* text, trimmed
C15_RealTextWins ==
  resolved # Unresolved
    => /\ (RealText(req.utterance) /\ ~RealText(req.usrtext))
            => resolved = Strip(req.utterance)
       /\ (RealText(req.usrtext) /\ ~RealText(req.utterance))
            => resolved = Strip(req.usrtext)

\* usrtext "@text" with utterance " hi " has resolved to "hi"
C15_Witness ==
  /\ req.usrtext = AT_TEXT
  /\ req.utterance = PADDED
  /\ resolved = <<"h", "i">>
  /\ last.allowed

\* C16: when neither field holds real text and at least one holds the
\* token, the utterance is the token itself and the request is dispatched
\* with it
C16_FallsBackToToken ==
  (/\ resolved # Unresolved
   /\ ~RealText(req.usrtext) /\ ~RealText(req.utterance)
   /\ IsToken(req.usrtext) \/ IsToken(req.utterance))
    => /\ resolved = AT_TEXT
       /\ last.reply \in {"wait", "answer", "fallback"}

\* C16, as the code has it: when neither field holds real text and at
\* least one holds the token, pick_utter returns None and the request is
\* answered with the clarification prompt, with no backend call and no
\* worker
C16_TokenOnlyIsEmpty ==
  (/\ resolved # Unresolved
   /\ ~RealText(req.usrtext) /\ ~RealText(req.utterance)
   /\ IsToken(req.usrtext) \/ IsToken(req.utterance))
    => /\ resolved = NoText
       /\ last.reply = "clarify"
       /\ last.calls = 0
       /\ last.started = 0

\* a request with the token in both fields and a callback address was
\* answered with the clarification prompt
C16_Witness ==
  /\ req.usrtext = AT_TEXT
  /\ req.utterance = PADDED_TOKEN
  /\ req.hasCallback
  /\ resolved = NoText
  /\ last.reply = "clarify"

\* C18: every attempt of the worker gets the timeout
\* min(BG_TRY_TIMEOUT, time left until the deadline), never more than
\* the time left, and the pause before the next attempt is 0.35 s times
\* 1.6 for each earlier pause, at most 2.0 s
C18_TimeoutWithinBudget ==
  /\ wpc = "call"
       => /\ wtimeout = Min(BG_TRY_TIMEOUT, wdeadline - wnow)
          /\ wtimeout <= wdeadline - wnow
  /\ wpc = "sleep"
       => /\ wsleep \in {SLEEP_START, (SLEEP_START * 16) \div 10,
                          (SLEEP_START * 256) \div 100,
                          (SLEEP_START * 4096) \div 1000,
                          (SLEEP_START * 65536) \div 10000}
          /\ SleepTime(wsleep) <= SLEEP_CAP
          /\ wsleep > SLEEP_CAP => SleepTime(wsleep) = SLEEP_CAP

AllowedInWindow ==
  {i \in DOMAIN thr : thr[i].res = "allowed" /\ now - thr[i].t < MIN_WINDOW_S}

\* C11: with the in-process store no increment of overlapping calls is
\* lost (the write of count += 1 leaves the counter one above what it was)
\* and at most RL_PER_MIN of the calls of one minute window are allowed
C11_NoLostIncrement ==
  [][store = "mem"
       => /\ \A i \in DOMAIN thr :
               (thr[i].pc = "i_write" /\ thr'[i].pc = "i_ret")
                 => mem'[ConcUser][thr[i].b].count
                      = mem[ConcUser][thr[i].b].count + 1
          /\ Cardinality(AllowedInWindow') <= RL_PER_MIN]_vars

\* C17: with the shared store every strike of overlapping calls is
\* recorded: the write of the strike count leaves it one above what it was
C17_StrikesAtomic ==
  [][store = "redis"
       => \A i \in DOMAIN thr :
            (thr[i].pc = "rs_set" /\ thr'[i].pc # "rs_set")
              => LiveStrikes(ConcUser)' = LiveStrikes(ConcUser) + 1]_vars

\* C19: while a ban is active no write moves its expiry to an earlier time
C19_BanNeverShortened ==
  [][BanActive(ConcUser)
       => BanExpiry(ConcUser)' >= BanExpiry(ConcUser)]_vars

====
